---- MODULE Spec2Model ----
(***************************************************************************)
(* A model of the PDF toolbox engine of src/app.py: parse_page_range,      *)
(* split_pdf, merge_pdfs, compress_pdf and the button handlers that call   *)
(* them.  Text is a sequence of Unicode code points; a byte buffer is a    *)
(* record holding its length and the document the PDF library reads from   *)
(* it; ui is what one run of a tab's script shows.                         *)
(***************************************************************************)
EXTENDS Integers, Sequences, FiniteSets, TLC

VARIABLES pc, op, range_str, total_pages, input_bytes, mode, quality, files,
          ret, merger, ui

vars == <<pc, op, range_str, total_pages, input_bytes, mode, quality, files,
          ret, merger, ui>>

(***************************************************************************)
(* Bounds of the checked inputs.                                           *)
(***************************************************************************)
MaxLen == 5
MaxWideLen == 3
MaxPages == 3

NoValue == <<>>

(***************************************************************************)
(* Text primitives of the language runtime used by parse_page_range.  A    *)
(* character is its Unicode code point.                                    *)
(***************************************************************************)
Ord(c) ==
    CASE c = " " -> 32 [] c = "+" -> 43 [] c = "," -> 44 [] c = "-" -> 45
      [] c = "0" -> 48 [] c = "1" -> 49 [] c = "2" -> 50 [] c = "3" -> 51
      [] c = "4" -> 52 [] c = "5" -> 53 [] c = "6" -> 54 [] c = "7" -> 55
      [] c = "8" -> 56 [] c = "9" -> 57 [] c = "_" -> 95 [] c = "a" -> 97
      [] c = "b" -> 98 [] c = "c" -> 99 [] c = "x" -> 120

Text(s) == [i \in 1..Len(s) |-> Ord(s[i])]

\* the code points of the digit zero of every decimal digit script; the nine
\* code points after each are its digits one to nine
DigitZeros ==
    {48, 1632, 1776, 1984, 2406, 2534, 2662, 2790, 2918, 3046, 3174,
     3302, 3430, 3558, 3664, 3792, 3872, 4160, 4240, 6112, 6160, 6470,
     6608, 6784, 6800, 6992, 7088, 7232, 7248, 42528, 43216, 43264,
     43472, 43504, 43600, 44016, 65296, 66720, 68912, 69734, 69872,
     69942, 70096, 70384, 70736, 70864, 71248, 71360, 71472, 71904,
     72016, 72784, 73040, 73120, 92768, 92864, 93008, 120782, 120792,
     120802, 120812, 120822, 123200, 123632, 125264, 130032}

Digits == UNION {z..(z + 9) : z \in DigitZeros}

DigitValue(c) == c - (CHOOSE z \in DigitZeros : z <= c /\ c <= z + 9)

\* the white space str.strip() removes
Whitespace ==
    (9..13) \cup (28..32) \cup {133, 160, 5760} \cup (8192..8202)
      \cup {8232, 8233, 8239, 8287, 12288}

\* the white space int() accepts around a number
IntWhitespace == Whitespace \ (28..31)

\* the most digits int() converts; beyond it int raises ValueError
MaxStrDigits == 4300

RECURSIVE DecFrom(_)
DecFrom(s) ==
    IF Len(s) = 0 THEN 0
    ELSE 10 * DecFrom(SubSeq(s, 1, Len(s) - 1)) + DigitValue(s[Len(s)])

\* the value of a sequence of digits; leading zeros add nothing
DecValue(s) ==
    LET nonzero == {i \in 1..Len(s) : DigitValue(s[i]) # 0}
    IN  IF nonzero = {} THEN 0
        ELSE LET first == CHOOSE i \in nonzero : \A j \in nonzero : i <= j
             IN  DecFrom(SubSeq(s, first, Len(s)))

\* str.replace(" ", "")
replace(s) == SelectSeq(s, LAMBDA c : c # Ord(" "))

\* str.split(sep): the pieces between separators, empty pieces included
RECURSIVE split(_, _)
split(s, sep) ==
    IF \A i \in 1..Len(s) : s[i] # sep THEN <<s>>
    ELSE LET i == CHOOSE j \in 1..Len(s) :
                      s[j] = sep /\ \A k \in 1..(j - 1) : s[k] # sep
         IN  <<SubSeq(s, 1, i - 1)>> \o split(SubSeq(s, i + 1, Len(s)), sep)

\* s without the leading and trailing characters that are in W
RECURSIVE strip_of(_, _)
strip_of(s, W) ==
    IF Len(s) > 0 /\ s[1] \in W THEN strip_of(Tail(s), W)
    ELSE IF Len(s) > 0 /\ s[Len(s)] \in W
         THEN strip_of(SubSeq(s, 1, Len(s) - 1), W)
         ELSE s

\* str.strip()
strip(s) == strip_of(s, Whitespace)

\* int(s): ok is FALSE where int raises ValueError
int(s) ==
    LET t == strip_of(s, IntWhitespace)
        signed == Len(t) > 0 /\ t[1] \in {Ord("+"), Ord("-")}
        body == IF signed THEN Tail(t) ELSE t
        wellformed ==
            /\ Len(body) > 0
            /\ body[1] \in Digits
            /\ body[Len(body)] \in Digits
            /\ \A i \in 1..Len(body) : body[i] \in Digits \cup {Ord("_")}
            /\ \A i \in 1..(Len(body) - 1) :
                 ~(body[i] = Ord("_") /\ body[i + 1] = Ord("_"))
        digits == SelectSeq(body, LAMBDA c : c # Ord("_"))
    IN  IF ~wellformed \/ Len(digits) > MaxStrDigits
        THEN [ok |-> FALSE, val |-> 0]
        ELSE [ok |-> TRUE,
              val |-> IF signed /\ t[1] = Ord("-")
                      THEN 0 - DecValue(digits) ELSE DecValue(digits)]

\* sorted(list(pages))
RECURSIVE sorted(_)
sorted(S) ==
    IF S = {} THEN <<>>
    ELSE LET m == CHOOSE x \in S : \A y \in S : x <= y
         IN  <<m>> \o sorted(S \ {m})

(***************************************************************************)
(* parse_page_range                                                        *)
(***************************************************************************)
\* range_part with range(start, end) in place of range(start, end + 1)
range_part_exclusive(part, total) ==
    LET pieces == split(part, Ord("-"))
    IN  IF Len(pieces) # 2 THEN [exc |-> "ValueError", add |-> {}]
        ELSE LET start == int(pieces[1])
                 end == int(pieces[2])
             IN  IF ~start.ok \/ ~end.ok
                 THEN [exc |-> "ValueError", add |-> {}]
                 ELSE [exc |-> "none",
                       add |-> {i - 1 : i \in {j \in start.val..(end.val - 1) :
                                                 1 <= j /\ j <= total}}]

\* the body of the try block of a part that holds "-"
range_part(part, total) ==
    LET pieces == split(part, Ord("-"))
    IN  IF Len(pieces) # 2 THEN [exc |-> "ValueError", add |-> {}]
        ELSE LET start == int(pieces[1])
                 end == int(pieces[2])
             IN  IF ~start.ok \/ ~end.ok
                 THEN [exc |-> "ValueError", add |-> {}]
                 ELSE [exc |-> "none",
                       add |-> {i - 1 : i \in {j \in start.val..end.val :
                                                 1 <= j /\ j <= total}}]

\* the body of the try block of a part without "-"
single_part(part, total) ==
    LET page == int(part)
    IN  IF ~page.ok THEN [exc |-> "ValueError", add |-> {}]
        ELSE [exc |-> "none",
              add |-> IF 1 <= page.val /\ page.val <= total
                      THEN {page.val - 1} ELSE {}]

part_step(part, total) ==
    IF \E i \in 1..Len(part) : part[i] = Ord("-")
    THEN range_part(part, total)
    ELSE single_part(part, total)

\* parse_loop with "break" in place of "continue"
RECURSIVE parse_loop_break(_, _, _, _)
parse_loop_break(parts, k, pages, total) ==
    IF k > Len(parts) THEN [raised |-> FALSE, pages |-> pages]
    ELSE LET r == part_step(parts[k], total)
         IN  IF r.exc = "none"
             THEN parse_loop_break(parts, k + 1, pages \cup r.add, total)
             ELSE [raised |-> FALSE, pages |-> pages]

\* the for loop over parts: "except ValueError: continue"
RECURSIVE parse_loop(_, _, _, _)
parse_loop(parts, k, pages, total) ==
    IF k > Len(parts) THEN [raised |-> FALSE, pages |-> pages]
    ELSE LET r == part_step(parts[k], total)
         IN  IF r.exc \in {"none", "ValueError"}
             THEN parse_loop(parts, k + 1, pages \cup r.add, total)
             ELSE [raised |-> TRUE, pages |-> pages]

\* the return statement: the pages found, in ascending order
parse_return(r) ==
    IF r.raised THEN [raised |-> TRUE, value |-> NoValue]
    ELSE [raised |-> FALSE, value |-> sorted(r.pages)]

parse_page_range(s, total) ==
    parse_return(parse_loop(split(replace(s), Ord(",")), 1, {}, total))

(***************************************************************************)
(* Inputs                                                                  *)
(***************************************************************************)
RECURSIVE SeqsUpTo(_, _)
SeqsUpTo(S, n) ==
    IF n = 0 THEN {<<>>}
    ELSE LET shorter == SeqsUpTo(S, n - 1)
         IN  shorter \cup {Append(q, x) : q \in shorter, x \in S}

Alphabet == {Ord("1"), Ord("3"), Ord("-"), Ord(","), Ord(" "), Ord("x")}

\* further characters int() has a rule for: a sign, an underscore, a form
\* feed (12), a file separator (28: white space to str.strip, not to int)
\* and the fullwidth digit three (65299)
WideAlphabet ==
    {Ord("0"), Ord("1"), Ord("+"), Ord("_"), Ord("-"), Ord(","), 12, 28, 65299}

\* n - 1 zeros and a last digit
ManyDigits(n, last) == [i \in 1..n |-> IF i = n THEN Ord(last) ELSE Ord("0")]

\* expressions around the digit limit of int()
LongInputs ==
    {ManyDigits(MaxStrDigits, "1"),
     ManyDigits(MaxStrDigits + 1, "1"),
     Text(<<"1", "-">>) \o ManyDigits(MaxStrDigits + 1, "3"),
     Text(<<"3", ",">>) \o ManyDigits(MaxStrDigits + 1, "1")}

NoBytes == [size |-> 0, readable |-> FALSE, pages |-> <<>>, meta |-> FALSE]

NoUi == [messages |-> <<>>, downloads |-> <<>>]

NoMerger == [pages |-> <<>>, inputs |-> 0, closed |-> TRUE]

InitParse ==
    /\ pc = "ready"
    /\ op = "none"
    /\ range_str \in SeqsUpTo(Alphabet, MaxLen)
                     \cup SeqsUpTo(WideAlphabet, MaxWideLen)
                     \cup LongInputs
    /\ total_pages \in 0..MaxPages
    /\ input_bytes = NoBytes
    /\ mode = "all"
    /\ quality = "medium"
    /\ files = <<>>
    /\ ret = [raised |-> FALSE, value |-> NoValue]
    /\ merger = NoMerger
    /\ ui = NoUi

ParsePageRange ==
    /\ pc = "ready"
    /\ op = "none"
    /\ pc' = "done"
    /\ op' = "parse_page_range"
    /\ ret' = parse_page_range(range_str, total_pages)
    /\ UNCHANGED <<range_str, total_pages, input_bytes, mode, quality, files,
                   merger, ui>>

NextParse == ParsePageRange

SpecParse == InitParse /\ [][NextParse]_vars

(***************************************************************************)
(* The PDF library, as far as the engine uses it.  A byte buffer is        *)
(* [size, readable, pages, meta]: its length, whether PdfReader accepts it,*)
(* and the pages and metadata PdfReader finds in it.  An empty buffer is   *)
(* never readable.  A page is [id, ok, enc]: ok is FALSE for a page whose  *)
(* objects cannot be resolved, so that copying it into a writer raises;    *)
(* enc tells whether its content stream is stored deflated.  A writer also *)
(* counts the indirect objects it holds.                                   *)
(***************************************************************************)
MaxRangeLen == 3

Page(i, b) == [id |-> i, ok |-> b, enc |-> "raw"]

\* PdfReader(io.BytesIO(b))
PdfReader(b) ==
    IF b.readable /\ b.size > 0
    THEN [raised |-> FALSE, pages |-> b.pages, meta |-> b.meta]
    ELSE [raised |-> TRUE, pages |-> <<>>, meta |-> FALSE]

\* PdfWriter()
PdfWriter == [raised |-> FALSE, pages |-> <<>>, meta |-> FALSE, objects |-> 0]

\* writer.add_page(page): the page and its objects are copied into the writer
add_page(writer, page) ==
    IF page.ok THEN [writer EXCEPT !.pages = Append(@, page),
                                   !.objects = @ + 1]
    ELSE [writer EXCEPT !.raised = TRUE]

\* writer.write(output); output.getvalue(), for a buffer of n bytes
write(writer, n) ==
    [size |-> n, readable |-> TRUE, pages |-> writer.pages, meta |-> writer.meta]

\* the length of a written buffer plays no part in split and merge
WrittenSize == 1

DigitChar == <<"0", "1", "2", "3", "4", "5", "6", "7", "8", "9">>

\* str(n) as an f-string formats a non-negative integer
RECURSIVE str(_)
str(n) ==
    IF n < 10 THEN DigitChar[n + 1]
    ELSE str(n \div 10) \o DigitChar[(n % 10) + 1]

\* filename with the 0-based index in the name
filename_zero_based(page_idx) == "page_" \o str(page_idx) \o ".pdf"

\* f"page_{page_idx + 1}.pdf"
filename(page_idx) == "page_" \o str(page_idx + 1) \o ".pdf"

(***************************************************************************)
(* split_pdf                                                               *)
(***************************************************************************)
range(n) == [i \in 1..n |-> i - 1]

\* pages_to_split with the range parsed against one page too many
pages_to_split_off_by_one(m, page_range, total) ==
    IF m = "all" THEN range(total)
    ELSE parse_page_range(page_range, total + 1).value

pages_to_split(m, page_range, total) ==
    IF m = "all" THEN range(total)
    ELSE parse_page_range(page_range, total).value

\* reader.pages[page_idx]: a negative index counts from the end
page_at(pages, page_idx) ==
    LET n == Len(pages)
    IN  IF 0 <= page_idx /\ page_idx < n
        THEN [raised |-> FALSE, page |-> pages[page_idx + 1]]
        ELSE IF 0 - n <= page_idx /\ page_idx < 0
             THEN [raised |-> FALSE, page |-> pages[n + page_idx + 1]]
             ELSE [raised |-> TRUE, page |-> Page(0, FALSE)]

\* split_loop that stops at a failing page and returns what it has
RECURSIVE split_loop_partial(_, _, _, _)
split_loop_partial(pages, todo, k, results) ==
    IF k > Len(todo) THEN [raised |-> FALSE, value |-> results]
    ELSE LET got == page_at(pages, todo[k])
             writer == IF got.raised THEN [PdfWriter EXCEPT !.raised = TRUE]
                       ELSE add_page(PdfWriter, got.page)
         IN  IF writer.raised THEN [raised |-> FALSE, value |-> results]
             ELSE split_loop_partial(pages, todo, k + 1,
                             Append(results, <<filename(todo[k]),
                                               write(writer, WrittenSize)>>))

\* the for loop over pages_to_split; an exception leaves the function and
\* the results list with it
RECURSIVE split_loop(_, _, _, _)
split_loop(pages, todo, k, results) ==
    IF k > Len(todo) THEN [raised |-> FALSE, value |-> results]
    ELSE LET got == page_at(pages, todo[k])
             writer == IF got.raised THEN [PdfWriter EXCEPT !.raised = TRUE]
                       ELSE add_page(PdfWriter, got.page)
         IN  IF writer.raised THEN [raised |-> TRUE, value |-> NoValue]
             ELSE split_loop(pages, todo, k + 1,
                             Append(results, <<filename(todo[k]),
                                               write(writer, WrittenSize)>>))

split_pdf(b, m, page_range) ==
    LET reader == PdfReader(b)
    IN  IF reader.raised THEN [raised |-> TRUE, value |-> NoValue]
        ELSE split_loop(reader.pages,
                        pages_to_split(m, page_range, Len(reader.pages)),
                        1, <<>>)

\* create_zip(files): the archive's entries, in the order written
create_zip(entries) == [zip |-> entries]

OriginalName == "upload"

\* what the button's handler shows for the outcome of split_pdf
split_shown(results) ==
    IF results.raised
    THEN [messages |-> <<"info", "error">>, downloads |-> <<>>]
    ELSE IF results.value = <<>>
         THEN [messages |-> <<"info", "warning">>, downloads |-> <<>>]
    ELSE [messages |-> <<"info", "success">>,
          downloads |->
            <<[file_name |-> OriginalName \o "_pages.zip",
               data |-> create_zip(results.value)]>>
            \o [k \in 1..Len(results.value) |->
                  [file_name |-> OriginalName \o "_" \o results.value[k][1],
                   data |-> results.value[k][2]]]]

\* one run of the split tab's script with a file uploaded: the page count
\* is read and shown first; the button exists only for a readable document
\* with at least one page, and pressed tells whether it was pressed
split_tab(b, m, page_range, pressed) ==
    LET reader == PdfReader(b)
        total == IF reader.raised THEN 0 ELSE Len(reader.pages)
    IN  IF reader.raised THEN [messages |-> <<"error">>, downloads |-> <<>>]
        ELSE IF total = 0 \/ ~pressed
             THEN [messages |-> <<"info">>, downloads |-> <<>>]
        ELSE IF m = "range" /\ strip(page_range) = <<>>
             THEN [messages |-> <<"info", "warning">>, downloads |-> <<>>]
        ELSE split_shown(split_pdf(b, m, page_range))

\* whether the split button is drawn
split_btn_drawn(b) ==
    LET reader == PdfReader(b)
    IN  ~reader.raised /\ Len(reader.pages) > 0

RECURSIVE PageFlags(_)
PageFlags(n) ==
    IF n = 0 THEN {<<>>}
    ELSE LET shorter == PageFlags(n - 1)
         IN  shorter \cup {Append(f, b) : f \in shorter, b \in BOOLEAN}

\* documents of up to MaxPages pages, the i-th page identified by i
SplitDocs ==
    {[size |-> 1, readable |-> TRUE, meta |-> FALSE,
      pages |-> [i \in 1..Len(f) |-> Page(i, f[i])]] : f \in PageFlags(MaxPages)}
    \cup {[size |-> 1, readable |-> FALSE, pages |-> <<>>, meta |-> FALSE],
          NoBytes}

InitSplit ==
    /\ pc = "ready"
    /\ op = "none"
    /\ range_str \in SeqsUpTo(Alphabet, MaxRangeLen)
                     \cup SeqsUpTo({12, 28, Ord("1")}, 2)
    /\ total_pages = 0
    /\ input_bytes \in SplitDocs
    /\ mode \in {"all", "range"}
    /\ quality = "medium"
    /\ files = <<>>
    /\ ret = [raised |-> FALSE, value |-> NoValue]
    /\ merger = NoMerger
    /\ ui = split_tab(input_bytes, mode, range_str, FALSE)

SplitPdf ==
    /\ pc = "ready"
    /\ op = "none"
    /\ pc' = "done"
    /\ op' = "split_pdf"
    /\ ret' = split_pdf(input_bytes, mode, range_str)
    /\ UNCHANGED <<range_str, total_pages, input_bytes, mode, quality, files,
                   merger, ui>>

SplitBtn ==
    /\ pc = "ready"
    /\ op = "none"
    /\ split_btn_drawn(input_bytes)
    /\ pc' = "done"
    /\ op' = "split_btn"
    /\ ui' = split_tab(input_bytes, mode, range_str, TRUE)
    /\ UNCHANGED <<range_str, total_pages, input_bytes, mode, quality, files,
                   ret, merger>>

NextSplit == SplitPdf \/ SplitBtn

SpecSplit == InitSplit /\ [][NextSplit]_vars

(***************************************************************************)
(* merge_pdfs                                                              *)
(***************************************************************************)
MaxFiles == 3
MaxDocPages == 2
PageIds == {1, 2}

\* PdfMerger()
PdfMerger == [pages |-> <<>>, inputs |-> 0, closed |-> FALSE]

\* append that puts the source's pages in front of those already merged
append_front(m, pdf_bytes) ==
    LET reader == PdfReader(pdf_bytes)
    IN  IF reader.raised \/ \E i \in 1..Len(reader.pages) : ~reader.pages[i].ok
        THEN [raised |-> TRUE, merger |-> m]
        ELSE [raised |-> FALSE,
              merger |-> [m EXCEPT !.pages = reader.pages \o @,
                                   !.inputs = @ + 1]]

\* merger.append(io.BytesIO(pdf_bytes)): the source is read whole and kept
\* among the merger's inputs
append(m, pdf_bytes) ==
    LET reader == PdfReader(pdf_bytes)
    IN  IF reader.raised \/ \E i \in 1..Len(reader.pages) : ~reader.pages[i].ok
        THEN [raised |-> TRUE, merger |-> m]
        ELSE [raised |-> FALSE,
              merger |-> [m EXCEPT !.pages = @ \o reader.pages,
                                   !.inputs = @ + 1]]

\* merger.close()
close(m) == [pages |-> <<>>, inputs |-> 0, closed |-> TRUE]

\* the for loop over files; an exception leaves the function at once
RECURSIVE merge_loop(_, _, _)
merge_loop(fs, k, m) ==
    IF k > Len(fs) THEN [raised |-> FALSE, merger |-> m]
    ELSE LET r == append(m, fs[k])
         IN  IF r.raised THEN r ELSE merge_loop(fs, k + 1, r.merger)

\* value is what the caller receives, merger the merger as the call leaves it
merge_pdfs(fs) ==
    LET r == merge_loop(fs, 1, PdfMerger)
    IN  IF r.raised
        THEN [raised |-> TRUE, value |-> NoValue, merger |-> r.merger]
        ELSE [raised |-> FALSE,
              value |-> [size |-> WrittenSize, readable |-> TRUE,
                         pages |-> r.merger.pages, meta |-> FALSE],
              merger |-> close(r.merger)]

MergeDocs ==
    {[size |-> 1, readable |-> TRUE, meta |-> FALSE, pages |-> q] :
        q \in SeqsUpTo({Page(i, TRUE) : i \in PageIds}, MaxDocPages)}
    \cup {[size |-> 1, readable |-> FALSE, pages |-> <<>>, meta |-> FALSE]}

\* one run of the merge tab's script: a single file draws a warning and no
\* button; with the button pressed the merger the call leaves behind is kept
merge_tab(fs, pressed) ==
    LET r == merge_pdfs(fs)
    IN  IF Len(fs) = 0 THEN [messages |-> <<>>, downloads |-> <<>>]
        ELSE IF Len(fs) < 2
             THEN [messages |-> <<"warning">>, downloads |-> <<>>]
        ELSE IF ~pressed THEN [messages |-> <<>>, downloads |-> <<>>]
        ELSE IF r.raised THEN [messages |-> <<"error">>, downloads |-> <<>>]
        ELSE [messages |-> <<"success">>,
              downloads |-> <<[file_name |-> "merged.pdf", data |-> r.value]>>]

InitMerge ==
    /\ pc = "ready"
    /\ op = "none"
    /\ range_str = <<>>
    /\ total_pages = 0
    /\ input_bytes = NoBytes
    /\ mode = "all"
    /\ quality = "medium"
    /\ files \in SeqsUpTo(MergeDocs, MaxFiles)
    /\ ret = [raised |-> FALSE, value |-> NoValue]
    /\ merger = NoMerger
    /\ ui = merge_tab(files, FALSE)

MergePdfs ==
    /\ pc = "ready"
    /\ op = "none"
    /\ pc' = "done"
    /\ op' = "merge_pdfs"
    /\ LET r == merge_pdfs(files)
       IN  /\ ret' = [raised |-> r.raised, value |-> r.value]
           /\ merger' = r.merger
    /\ UNCHANGED <<range_str, total_pages, input_bytes, mode, quality, files,
                   ui>>

MergeBtn ==
    /\ pc = "ready"
    /\ op = "none"
    /\ Len(files) >= 2
    /\ pc' = "done"
    /\ op' = "merge_btn"
    /\ ui' = merge_tab(files, TRUE)
    /\ merger' = merge_pdfs(files).merger
    /\ UNCHANGED <<range_str, total_pages, input_bytes, mode, quality, files,
                   ret>>

NextMerge == MergePdfs \/ MergeBtn

SpecMerge == InitMerge /\ [][NextMerge]_vars

(***************************************************************************)
(* compress_pdf                                                            *)
(***************************************************************************)
MaxSize == 3

Qualities == {"low", "medium", "high"}

\* for page in reader.pages: writer.add_page(page)
RECURSIVE copy_pages(_, _, _)
copy_pages(writer, pages, k) ==
    IF k > Len(pages) \/ writer.raised THEN writer
    ELSE copy_pages(add_page(writer, pages[k]), pages, k + 1)

\* page.compress_content_streams()
compress_content_streams(page) == [page EXCEPT !.enc = "flate"]

\* compress_identical_objects that also drops a page equal to an earlier one
compress_identical_objects_pages(writer) ==
    LET keep == {i \in 1..Len(writer.pages) :
                    \A j \in 1..(i - 1) : writer.pages[j].id # writer.pages[i].id}
    IN  [writer EXCEPT
           !.objects = Cardinality(keep),
           !.pages = [k \in 1..Cardinality(keep) |->
                        writer.pages[CHOOSE i \in keep :
                            Cardinality({j \in keep : j <= i}) = k]]]

\* writer.compress_identical_objects(remove_identicals=True,
\* remove_orphans=True): equal objects become one, the page tree stays
compress_identical_objects(writer) ==
    [writer EXCEPT
       !.objects = Cardinality({writer.pages[i].id : i \in 1..Len(writer.pages)})]

\* compress_writer that leaves the metadata out at the highest level
compress_writer_by_quality(b, q) ==
    LET reader == PdfReader(b)
        copied == copy_pages(PdfWriter, reader.pages, 1)
        withmeta == IF reader.meta /\ q # "high"
                    THEN [copied EXCEPT !.meta = TRUE] ELSE copied
        deflated == [withmeta EXCEPT
                       !.pages = [i \in 1..Len(withmeta.pages) |->
                                    compress_content_streams(withmeta.pages[i])]]
    IN  IF reader.raised THEN [PdfWriter EXCEPT !.raised = TRUE]
        ELSE IF copied.raised THEN copied
        ELSE compress_identical_objects(deflated)

\* the writer as it stands before it is written out
compress_writer(b, q) ==
    LET reader == PdfReader(b)
        copied == copy_pages(PdfWriter, reader.pages, 1)
        withmeta == IF reader.meta THEN [copied EXCEPT !.meta = TRUE] ELSE copied
        deflated == [withmeta EXCEPT
                       !.pages = [i \in 1..Len(withmeta.pages) |->
                                    compress_content_streams(withmeta.pages[i])]]
    IN  IF reader.raised THEN [PdfWriter EXCEPT !.raised = TRUE]
        ELSE IF copied.raised THEN copied
        ELSE compress_identical_objects(deflated)

\* reduction measured against the compressed size
reduction_of_compressed(original_size, compressed_size) ==
    IF original_size > 0
    THEN [num |-> (original_size - compressed_size) * 100, den |-> compressed_size]
    ELSE [num |-> 0, den |-> 1]

\* the reduction in per cent, as the exact fraction num/den
reduction(original_size, compressed_size) ==
    IF original_size > 0
    THEN [num |-> (original_size - compressed_size) * 100, den |-> original_size]
    ELSE [num |-> 0, den |-> 1]

\* n is the length of the buffer the writer produces
compress_pdf(b, q, n) ==
    LET writer == compress_writer(b, q)
        output_bytes == write(writer, n)
        original_size == b.size
        compressed_size == output_bytes.size
        stats == [original_size |-> original_size,
                  compressed_size |-> compressed_size,
                  reduction |-> reduction(original_size, compressed_size)]
    IN  IF writer.raised THEN [raised |-> TRUE, value |-> NoValue]
        ELSE [raised |-> FALSE, value |-> <<output_bytes, stats>>]

\* the compress tab with the button pressed
compress_btn(b, q, n) ==
    LET r == compress_pdf(b, q, n)
    IN  IF r.raised THEN [messages |-> <<"error">>, downloads |-> <<>>]
        ELSE [messages |-> <<"success">>,
              downloads |-> <<[file_name |-> OriginalName \o "_compressed.pdf",
                               data |-> r.value[1]]>>]

CompressPages ==
    {[id |-> i, ok |-> TRUE, enc |-> e] : i \in PageIds, e \in {"raw", "flate"}}

CompressDocs ==
    {[size |-> n, readable |-> TRUE, meta |-> m, pages |-> q] :
        n \in 1..MaxSize, m \in BOOLEAN, q \in SeqsUpTo(CompressPages, MaxDocPages)}
    \cup {[size |-> n, readable |-> FALSE, pages |-> <<>>, meta |-> FALSE] :
            n \in 0..MaxSize}

InitCompress ==
    /\ pc = "ready"
    /\ op = "none"
    /\ range_str = <<>>
    /\ total_pages = 0
    /\ input_bytes \in CompressDocs
    /\ mode = "all"
    /\ quality \in Qualities
    /\ files = <<>>
    /\ ret = [raised |-> FALSE, value |-> NoValue]
    /\ merger = NoMerger
    /\ ui = NoUi

CompressPdf ==
    /\ pc = "ready"
    /\ op = "none"
    /\ pc' = "done"
    /\ op' = "compress_pdf"
    /\ \E n \in 1..MaxSize : ret' = compress_pdf(input_bytes, quality, n)
    /\ UNCHANGED <<range_str, total_pages, input_bytes, mode, quality, files,
                   merger, ui>>

CompressBtn ==
    /\ pc = "ready"
    /\ op = "none"
    /\ pc' = "done"
    /\ op' = "compress_btn"
    /\ \E n \in 1..MaxSize : ui' = compress_btn(input_bytes, quality, n)
    /\ UNCHANGED <<range_str, total_pages, input_bytes, mode, quality, files,
                   ret, merger>>

NextCompress == CompressPdf \/ CompressBtn

SpecCompress == InitCompress /\ [][NextCompress]_vars

(***************************************************************************)
(* Page-range grammar, stated independently of the parser: a token is a    *)
(* maximal comma-free segment of the expression without its spaces.        *)
(***************************************************************************)
TokenSpans(s) ==
    LET commas == {i \in 1..Len(s) : s[i] = Ord(",")}
        starts == {1} \cup {i + 1 : i \in commas}
        ends == {Len(s)} \cup {i - 1 : i \in commas}
    IN  {sp \in starts \X ends :
            /\ sp[2] >= sp[1] - 1
            /\ \A i \in commas : i < sp[1] \/ i > sp[2]}

\* a numeral without the white space around it and without its plus sign
Core(t) ==
    LET ink == {i \in 1..Len(t) : t[i] \notin IntWhitespace}
        first == CHOOSE i \in ink : \A j \in ink : i <= j
        last == CHOOSE i \in ink : \A j \in ink : j <= i
        bare == IF ink = {} THEN <<>> ELSE SubSeq(t, first, last)
    IN  IF Len(bare) > 0 /\ bare[1] = Ord("+") THEN Tail(bare) ELSE bare

DigitsOf(t) == SelectSeq(Core(t), LAMBDA c : c \in Digits)

\* an integer as written: decimal digits of any script, single underscores
\* between digits allowed, an optional plus sign, white space around it
IsNumeral(t) ==
    LET u == Core(t)
    IN  /\ Len(u) > 0
        /\ u[Len(u)] \in Digits
        /\ \A i \in 1..Len(u) :
             \/ u[i] \in Digits
             \/ u[i] = Ord("_") /\ i > 1 /\ u[i - 1] \in Digits

\* limit is the largest number of digits a numeral may have
IsNumeralUpTo(t, limit) == IsNumeral(t) /\ Len(DigitsOf(t)) <= limit

Unlimited == MaxStrDigits + 2

\* the 1-based page numbers a token covers; {} for a malformed token
TokenCover(t, limit) ==
    IF IsNumeralUpTo(t, limit) THEN {DecValue(DigitsOf(t))}
    ELSE UNION {IF /\ t[d] = Ord("-")
                   /\ IsNumeralUpTo(SubSeq(t, 1, d - 1), limit)
                   /\ IsNumeralUpTo(SubSeq(t, d + 1, Len(t)), limit)
                THEN DecValue(DigitsOf(SubSeq(t, 1, d - 1)))
                       ..DecValue(DigitsOf(SubSeq(t, d + 1, Len(t))))
                ELSE {} : d \in 1..Len(t)}

WellFormedToken(t) ==
    \/ IsNumeral(t)
    \/ \E d \in 1..Len(t) : /\ t[d] = Ord("-")
                            /\ IsNumeral(SubSeq(t, 1, d - 1))
                            /\ IsNumeral(SubSeq(t, d + 1, Len(t)))

CoveredPages(s, total, limit) ==
    LET c == replace(s)
    IN  {i \in 1..total :
            \E sp \in TokenSpans(c) :
                i \in TokenCover(SubSeq(c, sp[1], sp[2]), limit)}

StrictlyAscending(q) == \A i \in 1..(Len(q) - 1) : q[i] < q[i + 1]

Range(q) == {q[i] : i \in 1..Len(q)}

ParseDone == pc = "done" /\ op = "parse_page_range"

Example1 == Text(<<"1", "-", "3", ",", "5", ",", "7", "-", "1", "0">>)

Example2 == Text(<<"a", "b", "c", ",", "1", "-", "x", ",", "9", "9">>)

\* C1 as stated: parse_page_range returns exactly the 0-based indices of the
\* pages in [1, total_pages] covered by some well-formed token (a single
\* integer or a range A-B of two integers), without duplicates and in
\* strictly ascending order, for every range expression.
C1_AsStated ==
    ParseDone =>
        /\ ~ret.raised
        /\ StrictlyAscending(ret.value)
        /\ Range(ret.value)
             = {i - 1 : i \in CoveredPages(range_str, total_pages, Unlimited)}

\* C1 amended: the same, for tokens whose integers have at most 4300 digits
\* each; a token holding an integer of more digits contributes nothing.  A
\* range partly inside [1, total_pages] contributes its inside part, and
\* "1-3,5,7-10" with total 10 gives [0,1,2,4,6,7,8,9].
C1_ExactSelection ==
    /\ ParseDone =>
         /\ ~ret.raised
         /\ StrictlyAscending(ret.value)
         /\ Range(ret.value)
              = {i - 1 : i \in CoveredPages(range_str, total_pages, MaxStrDigits)}
    /\ parse_page_range(Example1, 10).value = <<0, 1, 2, 4, 6, 7, 8, 9>>

\* a range reaching beyond the document, next to a single page it also covers
C1_Witness ==
    /\ ParseDone
    /\ range_str = Text(<<"1", "-", "3", ",", "1">>)
    /\ total_pages = 2
    /\ ret.value = <<0, 1>>

\* a well-formed token next to an integer of 4301 digits
C1_WitnessLong ==
    /\ ParseDone
    /\ range_str = Text(<<"3", ",">>) \o ManyDigits(MaxStrDigits + 1, "1")
    /\ total_pages = 3
    /\ ret.value = <<2>>

\* the expression without its k-th comma-separated token
RECURSIVE join(_)
join(parts) ==
    IF Len(parts) = 0 THEN <<>>
    ELSE IF Len(parts) = 1 THEN parts[1]
         ELSE parts[1] \o <<Ord(",")>> \o join(Tail(parts))

without(parts, k) == SubSeq(parts, 1, k - 1) \o SubSeq(parts, k + 1, Len(parts))

\* C2: parse_page_range never raises; a malformed token contributes no index
\* and does not stop the parse: the result is the one the expression gives
\* with that token taken out, so the indices of the well-formed tokens before
\* and after it are still returned and the malformed token adds nothing.
C2_SkipMalformed ==
    /\ ParseDone =>
         /\ ~ret.raised
         /\ LET parts == split(replace(range_str), Ord(","))
            IN  \A k \in 1..Len(parts) :
                  ~WellFormedToken(parts[k]) =>
                    ret.value = parse_page_range(join(without(parts, k)),
                                                 total_pages).value
    /\ parse_page_range(Example2, 5) = [raised |-> FALSE, value |-> <<>>]

\* a malformed range between two well-formed tokens
C2_Witness ==
    /\ ParseDone
    /\ range_str = Text(<<"1", ",", "-", ",", "3">>)
    /\ total_pages = 3
    /\ ~ret.raised
    /\ ret.value = <<0, 2>>

(***************************************************************************)
(* Splitting                                                               *)
(***************************************************************************)
SplitDone == pc = "done" /\ op = "split_pdf"

\* a document PdfReader accepts and whose pages can all be copied
Readable(b) ==
    /\ b.readable
    /\ b.size > 0
    /\ \A i \in 1..Len(b.pages) : b.pages[i].ok

PageNames ==
    <<"page_1.pdf", "page_2.pdf", "page_3.pdf", "page_4.pdf", "page_5.pdf",
      "page_6.pdf", "page_7.pdf", "page_8.pdf", "page_9.pdf", "page_10.pdf",
      "page_11.pdf", "page_12.pdf">>

\* an output buffer that opens as a document of exactly the one page p
SinglePage(out, p) == out.readable /\ out.size > 0 /\ out.pages = <<p>>

\* C3: for a readable document of n pages, split_pdf in mode "all" returns
\* exactly n entries, the k-th named page_k.pdf and holding exactly the
\* source's k-th page, in ascending page order.
C3_SplitAll ==
    /\ (SplitDone /\ mode = "all" /\ Readable(input_bytes)) =>
         /\ ~ret.raised
         /\ Len(ret.value) = Len(input_bytes.pages)
         /\ \A k \in 1..Len(ret.value) :
              /\ ret.value[k][1] = PageNames[k]
              /\ SinglePage(ret.value[k][2], input_bytes.pages[k])
    /\ \A k \in 1..Len(PageNames) : filename(k - 1) = PageNames[k]

C3_Witness ==
    /\ SplitDone
    /\ mode = "all"
    /\ Readable(input_bytes)
    /\ Len(input_bytes.pages) = MaxPages
    /\ Len(ret.value) = MaxPages
    /\ ret.value[2][1] = "page_2.pdf"

\* C4: for a readable document of n pages, split_pdf in range mode returns
\* one entry per index of parse_page_range(range_expr, n), in that order,
\* each named page_{index+1}.pdf and holding that page; the names are
\* pairwise distinct and every index lies in [0, n); an empty selection
\* gives an empty list and no error.
C4_SplitRange ==
    (SplitDone /\ mode # "all" /\ Readable(input_bytes)) =>
        LET n == Len(input_bytes.pages)
            sel == parse_page_range(range_str, n).value
        IN  /\ ~ret.raised
            /\ Len(ret.value) = Len(sel)
            /\ \A k \in 1..Len(sel) :
                 /\ sel[k] \in 0..(n - 1)
                 /\ ret.value[k][1] = PageNames[sel[k] + 1]
                 /\ SinglePage(ret.value[k][2], input_bytes.pages[sel[k] + 1])
            /\ \A j, k \in 1..Len(ret.value) :
                 j # k => ret.value[j][1] # ret.value[k][1]
            /\ (sel = <<>> => ret.value = <<>>)

\* a selection given in descending order that skips the middle page
C4_Witness ==
    /\ SplitDone
    /\ mode = "range"
    /\ Readable(input_bytes)
    /\ Len(input_bytes.pages) = 3
    /\ range_str = Text(<<"3", ",", "1">>)
    /\ Len(ret.value) = 2
    /\ ret.value[1][1] = "page_1.pdf"
    /\ ret.value[2][1] = "page_3.pdf"

C4_WitnessEmpty ==
    /\ SplitDone
    /\ mode = "range"
    /\ Readable(input_bytes)
    /\ Len(input_bytes.pages) > 0
    /\ range_str = Text(<<"x">>)
    /\ ~ret.raised
    /\ ret.value = <<>>

\* the pages the call selects, and whether reading the source or copying
\* one of the selected pages fails
Selected(b, m, page_range) ==
    IF m = "all" THEN {i - 1 : i \in 1..Len(b.pages)}
    ELSE {i - 1 : i \in CoveredPages(page_range, Len(b.pages), MaxStrDigits)}

SplitFails(b, m, page_range) ==
    \/ ~b.readable
    \/ b.size = 0
    \/ \E i \in Selected(b, m, page_range) : ~b.pages[i + 1].ok

\* C9: split_pdf is all-or-nothing: when reading the source or building the
\* output of any selected page fails the call raises and the caller gets no
\* list, not even the outputs of pages handled before the failure; the
\* button handler then shows an error and offers no download.
C9_AllOrNothing ==
    /\ SplitDone =>
         /\ ret.raised <=> SplitFails(input_bytes, mode, range_str)
         /\ ret.raised => ret.value = NoValue
    /\ (pc = "done" /\ op = "split_btn"
          /\ SplitFails(input_bytes, mode, range_str)) =>
         /\ ui.messages = <<"info", "error">>
         /\ ui.downloads = <<>>

\* the second of two selected pages cannot be copied
C9_Witness ==
    /\ SplitDone
    /\ mode = "all"
    /\ input_bytes.readable
    /\ Len(input_bytes.pages) = 2
    /\ input_bytes.pages[1].ok
    /\ ~input_bytes.pages[2].ok
    /\ ret.raised
    /\ ret.value = NoValue

C9_WitnessUi ==
    /\ pc = "done"
    /\ op = "split_btn"
    /\ mode = "range"
    /\ range_str = Text(<<"1", "-", "3">>)
    /\ input_bytes.readable
    /\ Len(input_bytes.pages) = 2
    /\ input_bytes.pages[1].ok
    /\ ~input_bytes.pages[2].ok
    /\ ui.messages = <<"info", "error">>

(***************************************************************************)
(* Merging                                                                 *)
(***************************************************************************)
MergeDone == pc = "done" /\ op = "merge_pdfs"

AllReadable(fs) == \A k \in 1..Len(fs) : Readable(fs[k])

RECURSIVE Concat(_)
Concat(fs) ==
    IF Len(fs) = 0 THEN <<>>
    ELSE Concat(SubSeq(fs, 1, Len(fs) - 1)) \o fs[Len(fs)].pages

RECURSIVE PageSum(_)
PageSum(fs) == IF Len(fs) = 0 THEN 0 ELSE Len(Head(fs).pages) + PageSum(Tail(fs))

\* C5: for every sequence of n >= 0 readable sources merge_pdfs completes
\* and the output's pages are the sources' pages concatenated in the order
\* the sources were given, each in its own page order; the page count is the
\* sum of the sources' counts; one source gives that source's pages and no
\* source gives an output without pages.
C5_MergeConcatenates ==
    (MergeDone /\ AllReadable(files)) =>
        /\ ~ret.raised
        /\ ret.value.readable
        /\ ret.value.pages = Concat(files)
        /\ Len(ret.value.pages) = PageSum(files)
        /\ (Len(files) = 1 => ret.value.pages = files[1].pages)
        /\ (Len(files) = 0 => ret.value.pages = <<>>)

\* two sources whose pages differ, so that their order shows in the output
C5_Witness ==
    /\ MergeDone
    /\ Len(files) = 2
    /\ files[1].pages = <<Page(2, TRUE), Page(1, TRUE)>>
    /\ files[2].pages = <<Page(1, TRUE)>>
    /\ files[2].readable
    /\ ret.value.pages = <<Page(2, TRUE), Page(1, TRUE), Page(1, TRUE)>>

\* C10: on every exit path of merge_pdfs, a raising append included, the
\* merger and the inputs it holds are closed before control returns to the
\* caller; a failing k-th source leaves no open merger behind.
C10_ReleasedOnEveryExit ==
    MergeDone => (merger.closed /\ merger.inputs = 0)

\* what the code does instead: the merger is closed exactly when the call
\* returns normally, and after a failure on the k-th source it still holds
\* the k-1 sources appended before
C10_ClosedOnlyOnReturn ==
    MergeDone =>
        /\ merger.closed <=> ~ret.raised
        /\ ret.raised <=> ~AllReadable(files)
        /\ ret.raised =>
             \E k \in 1..Len(files) :
                /\ ~Readable(files[k])
                /\ AllReadable(SubSeq(files, 1, k - 1))
                /\ merger.inputs = k - 1

C10_Leak ==
    /\ MergeDone
    /\ Len(files) = 2
    /\ Readable(files[1])
    /\ ~Readable(files[2])
    /\ ret.raised
    /\ ~merger.closed
    /\ merger.inputs = 1

(***************************************************************************)
(* Compression                                                             *)
(***************************************************************************)
CompressDone == pc = "done" /\ op = "compress_pdf"

PageIdsOf(pages) == [i \in 1..Len(pages) |-> pages[i].id]

\* C6: for every readable document compress_pdf's output has as many pages
\* as the input and in the same order: the k-th output page is the k-th
\* input page; stream compression and the removal of identical and orphan
\* objects add, drop or reorder no page.
C6_PagesPreserved ==
    (CompressDone /\ Readable(input_bytes)) =>
        /\ ~ret.raised
        /\ ret.value[1].readable
        /\ Len(ret.value[1].pages) = Len(input_bytes.pages)
        /\ \A k \in 1..Len(input_bytes.pages) :
             ret.value[1].pages[k].id = input_bytes.pages[k].id

\* two pages with the same content, whose objects the removal merges
C6_Witness ==
    /\ CompressDone
    /\ Readable(input_bytes)
    /\ PageIdsOf(input_bytes.pages) = <<1, 1>>
    /\ input_bytes.pages[1].enc = "raw"
    /\ PageIdsOf(ret.value[1].pages) = <<1, 1>>
    /\ ret.value[1].pages[1].enc = "flate"

\* C7 as stated: the reduction is (original - compressed) / original * 100
\* for original_size > 0 and never above 100, and for an empty input buffer
\* compress_pdf returns stats whose reduction is 0.
C7_AsStated ==
    CompressDone =>
        /\ ~ret.raised =>
             LET stats == ret.value[2]
             IN  /\ stats.reduction.num * stats.original_size
                      = (stats.original_size - stats.compressed_size) * 100
                          * stats.reduction.den
                 /\ stats.reduction.num <= 100 * stats.reduction.den
        /\ input_bytes.size = 0 =>
             (~ret.raised /\ ret.value[2].reduction.num = 0)

\* C7 amended: whenever compress_pdf returns, original_size and
\* compressed_size are the lengths of the input and output buffers,
\* original_size is positive, the reduction is
\* (original_size - compressed_size) / original_size * 100 and is never
\* above 100; an empty input buffer is no readable document, so the call
\* raises before any stats exist; the reduction expression itself yields 0
\* for original_size = 0 without dividing.
C7_Reduction ==
    /\ CompressDone =>
         /\ ~ret.raised =>
              LET stats == ret.value[2]
              IN  /\ stats.original_size = input_bytes.size
                  /\ stats.compressed_size = ret.value[1].size
                  /\ stats.original_size > 0
                  /\ stats.reduction.den > 0
                  /\ stats.reduction.num * stats.original_size
                       = (stats.original_size - stats.compressed_size) * 100
                           * stats.reduction.den
                  /\ stats.reduction.num <= 100 * stats.reduction.den
         /\ input_bytes.size = 0 => ret.raised
    /\ \A c \in 0..MaxSize : reduction(0, c).num = 0

\* an output larger than the input: a negative reduction
C7_Witness ==
    /\ CompressDone
    /\ ~ret.raised
    /\ input_bytes.size = 2
    /\ ret.value[2].compressed_size = 3
    /\ ret.value[2].reduction = [num |-> -100, den |-> 2]

\* C8: every quality level is accepted, and for the same input the pages
\* copied, the metadata copy, the object removal and the resulting page
\* count and order are those of every other level.
C8_QualityStructureFree ==
    CompressDone =>
        \A q \in Qualities :
            LET w == compress_writer(input_bytes, q)
            IN  /\ w.raised = ret.raised
                /\ Readable(input_bytes) => ~ret.raised
                /\ ~ret.raised =>
                     /\ ret.value[1].pages = w.pages
                     /\ ret.value[1].meta = w.meta
                     /\ w.objects = Cardinality(Range(PageIdsOf(input_bytes.pages)))

C8_Witness ==
    /\ CompressDone
    /\ quality = "high"
    /\ Readable(input_bytes)
    /\ input_bytes.meta
    /\ Len(input_bytes.pages) = 2
    /\ ~ret.raised
    /\ ret.value[1].meta
    /\ Len(ret.value[1].pages) = 2

====
